---- MODULE Spec2Model ----
(***************************************************************************)
(* Model of the dataset preparation scripts of the animal species          *)
(* detection repository:                                                   *)
(*   scripts/convert_format.py    Pascal VOC -> YOLO label conversion      *)
(*   scripts/train_test_slpit.py  per-class train/val/test partitioning    *)
(*                                                                         *)
(* Four specifications share the module:                                   *)
(*   SpecBox    convert_bbox_to_yolo applied to bounded boxes              *)
(*   SpecConv   the converter's driver loop over label files, re-runnable  *)
(*   SpecSplit  the partitioner's driver loop over the raw root            *)
(*   SpecTwice  train_test_split's choice of the sets, made repeatedly     *)
(*                                                                         *)
(* Numbers are fixed point: a float v is the integer v * Micro.  Label     *)
(* text is kept as the token list that line.strip().split(" ") yields.     *)
(***************************************************************************)
EXTENDS Integers, Sequences, FiniteSets, TLC

VARIABLES
    \* SpecBox
    box,        \* the parsed label and image size handed to convert_bbox_to_yolo
    yolo,       \* its result, or Pending
    \* SpecConv
    labelFiles, \* label file index -> content (sequence of lines)
    images,     \* label file index -> state of the paired .jpg / .JPG files
    idx,        \* position of the driver loop in path_labels
    pass,       \* how many times the script has been started
    status,     \* "idle" | "running" | "done" | "crashed"
    hist,       \* label file index -> sequence of call records of pascal_to_yolo
    \* SpecSplit
    rawRoot,    \* entry of RAW_DIR -> NotDir or the set of file names in it
    cfg,        \* split_ratio (percent) and sample argument
    todo,       \* entries the driver loop has not reached yet
    cur,        \* entry being processed, or None
    pc,         \* "driver" | "train" | "val" | "test" | "done" | "crashed"
    sets,       \* train_sets, val_sets, test_sets and the sampled list of cur
    copies,     \* <<entry, mode>> -> what the images_labels_split call selected and copied
    out,        \* copied files: <<kind, mode, entry>> -> set of file names
    slog,       \* log records of the partitioner
    run,        \* how many times the partitioner has been started
    shist       \* entry -> sequence of split records, one per call

boxVars   == <<box, yolo>>
convVars  == <<labelFiles, images, idx, pass, status, hist>>
splitVars == <<rawRoot, cfg, todo, cur, pc, sets, copies, out, slog, run, shist>>
vars      == <<boxVars, convVars, splitVars>>

None    == "none"
Pending == [kind |-> "pending", exc |-> None, line |-> <<>>, warned |-> FALSE]

(***************************************************************************)
(* Small helpers                                                           *)
(***************************************************************************)
Abs(n) == IF n < 0 THEN -n ELSE n

Min(a, b) == IF a <= b THEN a ELSE b

Range(s) == {s[i] : i \in 1..Len(s)}

\* s[a+1 .. b] as Python's s[a:b], clipped to the list
Slice(s, a, b) ==
    LET lo == Min(a, Len(s))
        hi == Min(b, Len(s))
    IN  IF hi <= lo THEN <<>> ELSE SubSeq(s, lo + 1, hi)

\* all sequences over S of length at most n
SeqsUpTo(S, n) == UNION {[1..k -> S] : k \in 0..n}

\* all orderings of a finite set
RECURSIVE Perms(_)
Perms(S) ==
    IF S = {} THEN {<<>>}
    ELSE UNION {{<<x>> \o p : p \in Perms(S \ {x})} : x \in S}

(***************************************************************************)
(* convert_format.py : text tokens and parsing                             *)
(***************************************************************************)
\* the six decimals of the :.6f format
Micro == 1000000

\* a token that is not a decimal literal (class name, junk, empty string)
Word(w) == [t |-> "word", s |-> w, neg |-> FALSE, micro |-> 0, dp |-> 0]

\* a decimal literal: sign, value * Micro, number of decimals written
Dec(neg, micro, dp) == [t |-> "dec", s |-> "", neg |-> neg, micro |-> micro, dp |-> dp]

\* an integer literal such as 10
Px(n) == Dec(FALSE, n * Micro, 0)

\* the result of line.strip().split(" ") on an empty line
BlankLine == <<Word("")>>

\* float(item) if item.replace(".", "", 1).isdigit() else item
ParseItem(tok) ==
    IF tok.t = "dec" /\ ~tok.neg
    THEN [k |-> "float", v |-> tok.micro, tok |-> tok]
    ELSE [k |-> "str", v |-> 0, tok |-> tok]

ParseLine(line) == [i \in 1..Len(line) |-> ParseItem(line[i])]

\* return 0.0 <= bound_box_dim <= 1.0 ; a str operand raises TypeError
is_normalized(dim) ==
    IF dim.k = "str" THEN "TypeError"
    ELSE IF 0 <= dim.v /\ dim.v <= Micro THEN "true" ELSE "false"

\* all(is_normalized(dim) for dim in label[1:]) : left to right, stops at
\* the first value that is not normalized, propagates the first exception
RECURSIVE AllNormalizedFrom(_, _)
AllNormalizedFrom(label, i) ==
    IF i > Len(label) THEN "true"
    ELSE LET r == is_normalized(label[i])
         IN  IF r = "true" THEN AllNormalizedFrom(label, i + 1) ELSE r

AllNormalized(label) == AllNormalizedFrom(label, 2)

(***************************************************************************)
(* convert_format.py : convert_bbox_to_yolo                                *)
(***************************************************************************)
class_labels ==
    [buffalo |-> 0, elephant |-> 1, rhino |-> 2, zebra |-> 3, cheetah |-> 4,
     fox |-> 5, jaguar |-> 6, tiger |-> 7, lion |-> 8, panda |-> 9]

\* str.lower() on the words the model uses
Lower(w) ==
    CASE w = "Zebra"   -> "zebra"
      [] w = "BUFFALO" -> "buffalo"
      [] OTHER         -> w

\* class_labels.get(label[0].lower(), -1)
ClassId(w) ==
    IF Lower(w) \in DOMAIN class_labels THEN class_labels[Lower(w)] ELSE -1

\* |n| / d rounded to the nearest integer, ties to even
RoundHalfEven(n, d) ==
    LET q == n \div d
        r == n % d
    IN  IF 2 * r < d THEN q
        ELSE IF 2 * r > d THEN q + 1
        ELSE IF q % 2 = 0 THEN q ELSE q + 1

\* f"{num / den:.6f}" as a text token
F6(num, den) == Dec(num < 0, RoundHalfEven(Abs(num), den), 6)

Raise(exc)   == [kind |-> "raise", exc |-> exc, line |-> <<>>, warned |-> FALSE]
Returns(l, w) == [kind |-> "ok", exc |-> None, line |-> l, warned |-> w]

\* the conversion with the top-left corner in place of the centre
YoloLineCorner(label, img_width, img_height) ==
    LET x_min == label[2].v
        y_min == label[3].v
        x_max == label[4].v
        y_max == label[5].v
    IN  <<Px(ClassId(label[1].tok.s)),
          F6(x_min, img_width), F6(y_min, img_height),
          F6(x_max - x_min, img_width), F6(y_max - y_min, img_height)>>

\* lines 110-125: centre and size, divided by the image size, six decimals
YoloLine(label, img_width, img_height) ==
    LET x_min == label[2].v
        y_min == label[3].v
        x_max == label[4].v
        y_max == label[5].v
    IN  <<Px(ClassId(label[1].tok.s)),
          F6(x_min + x_max, 2 * img_width), F6(y_min + y_max, 2 * img_height),
          F6(x_max - x_min, img_width), F6(y_max - y_min, img_height)>>

convert_bbox_to_yolo(label, img_width, img_height) ==
    IF label[1].k = "float" THEN Raise("AttributeError")        \* float has no .lower()
    ELSE IF ClassId(label[1].tok.s) = -1 THEN Returns(BlankLine, TRUE)  \* return ""
    ELSE IF Len(label) < 5 THEN Raise("ValueError")             \* unpacking label[1:5]
    ELSE IF \E i \in 2..5 : label[i].k = "str" THEN Raise("TypeError")
    ELSE Returns(YoloLine(label, img_width, img_height), FALSE)

(***************************************************************************)
(* Values of the variables a specification does not use                    *)
(***************************************************************************)
BoxIdle ==
    /\ box = None
    /\ yolo = Pending

ConvIdle ==
    /\ labelFiles = <<>>
    /\ images = <<>>
    /\ idx = 0
    /\ pass = 0
    /\ status = "idle"
    /\ hist = <<>>

SplitIdle ==
    /\ rawRoot = <<>>
    /\ cfg = None
    /\ todo = {}
    /\ cur = None
    /\ pc = "idle"
    /\ sets = None
    /\ copies = <<>>
    /\ out = <<>>
    /\ slog = <<>>
    /\ run = 0
    /\ shist = <<>>

(***************************************************************************)
(* SpecBox : convert_bbox_to_yolo on bounded Pascal boxes                  *)
(***************************************************************************)
KnownClassWords == {"buffalo", "Zebra", "panda"}

\* pixel coordinates the boxes are drawn from, and the image sizes
XCoords == {0, 10, 110, 128, 200, 250}
YCoords == {20, 96, 220, 300}
ImageSizes == {<<200, 300>>, <<128, 96>>}

BoxLine(c, x1, y1, x2, y2) == <<Word(c), Px(x1), Px(y1), Px(x2), Px(y2)>>

InitBox ==
    /\ \E c \in KnownClassWords, x1 \in XCoords, x2 \in XCoords,
          y1 \in YCoords, y2 \in YCoords, sz \in ImageSizes :
          box = [label |-> ParseLine(BoxLine(c, x1, y1, x2, y2)),
                 W |-> sz[1], H |-> sz[2]]
    /\ yolo = Pending
    /\ ConvIdle
    /\ SplitIdle

ConvertBox ==
    /\ yolo = Pending
    /\ yolo' = convert_bbox_to_yolo(box.label, box.W, box.H)
    /\ UNCHANGED <<box, convVars, splitVars>>

NextBox == ConvertBox

SpecBox == InitBox /\ [][NextBox]_vars

\* signed value * Micro of an output token
TokVal(tok) == IF tok.neg THEN -tok.micro ELSE tok.micro

BoxConverted == yolo.kind = "ok"

\* the box lies inside the image and is not inverted
BoxInImage ==
    /\ 0 <= box.label[2].v /\ box.label[2].v <= box.label[4].v
    /\ box.label[4].v <= box.W * Micro
    /\ 0 <= box.label[3].v /\ box.label[3].v <= box.label[5].v
    /\ box.label[5].v <= box.H * Micro

\* cx, cy, w, h are the stated quotients to within half a unit of the
\* sixth decimal
BoxFormula ==
    LET l == box.label
        o == yolo.line
    IN  /\ Len(o) = 5
        /\ o[1] = Px(ClassId(l[1].tok.s))
        /\ \A i \in 2..5 : o[i].t = "dec" /\ o[i].dp = 6
        /\ Abs(2 * box.W * TokVal(o[2]) - (l[2].v + l[4].v)) <= box.W
        /\ Abs(2 * box.H * TokVal(o[3]) - (l[3].v + l[5].v)) <= box.H
        /\ Abs(2 * box.W * TokVal(o[4]) - 2 * (l[4].v - l[2].v)) <= box.W
        /\ Abs(2 * box.H * TokVal(o[5]) - 2 * (l[5].v - l[3].v)) <= box.H

\* cx*W - w*W/2 = x_min and cx*W + w*W/2 = x_max up to 0.75e-6 * W,
\* the two rounding errors added
BoxRoundTrip ==
    LET l == box.label
        o == yolo.line
    IN  /\ Abs(4 * box.W * TokVal(o[2]) - 2 * box.W * TokVal(o[4]) - 4 * l[2].v)
              <= 3 * box.W
        /\ Abs(4 * box.W * TokVal(o[2]) + 2 * box.W * TokVal(o[4]) - 4 * l[4].v)
              <= 3 * box.W

BoxInUnitRange ==
    \A i \in 2..5 : ~yolo.line[i].neg /\ yolo.line[i].micro <= Micro

BoxIsScenario ==
    /\ box.label = ParseLine(BoxLine("buffalo", 10, 20, 110, 220))
    /\ box.W = 200 /\ box.H = 300

BoxScenarioLine ==
    <<Px(0), Dec(FALSE, 300000, 6), Dec(FALSE, 400000, 6),
      Dec(FALSE, 500000, 6), Dec(FALSE, 666667, 6)>>

\* C9 as stated: for every Pascal box of a known class the converted line
\* carries the four quotients rounded to six decimals, all four lie in
\* [0,1], and the corners are recovered within the rounding error.
C9_Original ==
    BoxConverted => BoxFormula /\ BoxRoundTrip /\ BoxInUnitRange

\* C9 amended: the quotients, the corner recovery and the buffalo scenario
\* hold for every box; the four values lie in [0,1] when the box lies
\* inside the image (0 <= x_min <= x_max <= W, 0 <= y_min <= y_max <= H).
C9_Amended ==
    /\ yolo # Pending => BoxConverted
    /\ BoxConverted =>
          /\ BoxFormula
          /\ BoxRoundTrip
          /\ BoxInImage => BoxInUnitRange
          /\ BoxIsScenario => yolo.line = BoxScenarioLine

\* a box inside the image whose quotients need rounding has been converted
C9_Witness ==
    /\ BoxConverted
    /\ BoxInImage
    /\ BoxIsScenario
    /\ yolo.line = BoxScenarioLine

(***************************************************************************)
(* convert_format.py : pascal_to_yolo                                      *)
(***************************************************************************)
\* lines 25-35: the .jpg path if it exists, else the .JPG path; Image.open
\* on it succeeds only for a readable file
ImageReadable(img) ==
    IF img.jpg # "absent" THEN img.jpg = "ok" ELSE img.JPG = "ok"

CallResult(outcome, exc, content, logs) ==
    [outcome |-> outcome, exc |-> exc, content |-> content, logs |-> logs]

\* lines 43-62: the loop over the lines, the early return on the first
\* record whose values are all normalized, the rewrite after the loop
RECURSIVE ConvertFrom(_, _, _, _, _, _)
ConvertFrom(labels, i, bbox_coordinates, logs, width, height) ==
    IF i > Len(labels)
    THEN CallResult("converted", None, bbox_coordinates, Append(logs, "info:converted"))
    ELSE LET label == ParseLine(labels[i])
             norm  == AllNormalized(label)
         IN  IF norm = "TypeError"
             THEN CallResult("raised", "TypeError", labels, logs)
             ELSE IF norm = "true"
             THEN CallResult("skipped", None, labels, Append(logs, "info:already normalized"))
             ELSE LET r == convert_bbox_to_yolo(label, width, height)
                  IN  IF r.kind = "raise"
                      THEN CallResult("raised", r.exc, labels, logs)
                      ELSE ConvertFrom(labels, i + 1, Append(bbox_coordinates, r.line),
                                       IF r.warned
                                       THEN Append(logs, "warning:unknown class")
                                       ELSE logs,
                                       width, height)

pascal_to_yolo(labels, img) ==
    IF ~ImageReadable(img)
    THEN CallResult("noimage", None, labels, <<"warning:image not found">>)
    ELSE ConvertFrom(labels, 1, <<>>, <<>>, img.W, img.H)

(***************************************************************************)
(* SpecConv : the converter's driver loop, which may be started again      *)
(***************************************************************************)
\* bounds
NumLabelFiles == 2
MaxLines      == 2
MaxPasses     == 2

Frac(tenths) == Dec(FALSE, tenths * 100000, 1)

ConvLines ==
    { BoxLine("buffalo", 10, 20, 110, 220),
      BoxLine("Zebra", 0, 0, 200, 300),
      <<Word("buffalo"), Frac(5), Frac(5), Frac(2), Frac(2)>>,
      BoxLine("cat", 10, 20, 30, 40),
      BoxLine("buffalo", 10, 20, 250, 220),
      <<Word("buffalo"), Dec(TRUE, 5 * Micro, 0), Px(20), Px(110), Px(220)>>,
      <<Word("buffalo"), Px(10), Px(20)>>,
      BlankLine,
      <<Word("buffalo"), Px(10), Word("abc"), Px(110), Px(220)>>,
      BoxScenarioLine,
      BoxLine("panda", 110, 20, 10, 220) }

ImageStates ==
    { [jpg |-> "ok",     JPG |-> "absent", W |-> 200, H |-> 300],
      [jpg |-> "absent", JPG |-> "ok",     W |-> 200, H |-> 300],
      [jpg |-> "absent", JPG |-> "absent", W |-> 200, H |-> 300],
      [jpg |-> "bad",    JPG |-> "ok",     W |-> 200, H |-> 300] }

Files == 1..NumLabelFiles

RECURSIVE TotalLines(_, _)
TotalLines(fs, n) == IF n = 0 THEN 0 ELSE Len(fs[n]) + TotalLines(fs, n - 1)

InitConv ==
    /\ labelFiles \in [Files -> SeqsUpTo(ConvLines, MaxLines)]
    /\ TotalLines(labelFiles, NumLabelFiles) <= MaxLines
    /\ images \in [Files -> ImageStates]
    /\ idx = 1
    /\ pass = 1
    /\ status = "running"
    /\ hist = [f \in Files |-> <<>>]
    /\ BoxIdle
    /\ SplitIdle

\* lines 136-138: the body of the loop over path_labels; an exception that
\* leaves pascal_to_yolo ends the script
ConvertNextLabel ==
    /\ status = "running"
    /\ idx \in Files
    /\ LET r == pascal_to_yolo(labelFiles[idx], images[idx])
       IN  /\ labelFiles' = [labelFiles EXCEPT ![idx] = r.content]
           /\ hist' = [hist EXCEPT ![idx] =
                         Append(@, [before |-> labelFiles[idx], after |-> r.content,
                                    outcome |-> r.outcome, exc |-> r.exc,
                                    logs |-> r.logs, pass |-> pass])]
           /\ IF r.outcome = "raised"
              THEN status' = "crashed" /\ idx' = idx
              ELSE status' = status /\ idx' = idx + 1
    /\ UNCHANGED <<images, pass, boxVars, splitVars>>

\* line 140: the loop is exhausted
FinishConverter ==
    /\ status = "running"
    /\ idx \notin Files
    /\ status' = "done"
    /\ UNCHANGED <<labelFiles, images, idx, pass, hist, boxVars, splitVars>>

\* the script is started again on the same raw directory
RestartConverter ==
    /\ status \in {"done", "crashed"}
    /\ pass < MaxPasses
    /\ pass' = pass + 1
    /\ idx' = 1
    /\ status' = "running"
    /\ UNCHANGED <<labelFiles, images, hist, boxVars, splitVars>>

NextConv == ConvertNextLabel \/ FinishConverter \/ RestartConverter

SpecConv == InitConv /\ [][NextConv]_vars

(***************************************************************************)
(* Claims about the converter                                              *)
(***************************************************************************)
\* every call of pascal_to_yolo made so far
Calls == {c \in Files \X (1..MaxPasses) : c[2] <= Len(hist[c[1]])}

\* a record: a class token followed by four numeric positional values
IsRecord(line) ==
    /\ Len(line) = 5
    /\ \A i \in 2..5 : ParseItem(line[i]).k = "float"

\* all four positional values of the record lie in [0.0, 1.0]
RecordNormalized(line) == \A i \in 2..5 : ParseItem(line[i]).v <= Micro

\* C2: the decision is per file.  For a label file made of records, with a
\* readable image, a call that returns normally leaves the file untouched as
\* "already normalized" only if every record of the file is normalized; if
\* some record has a value outside [0,1] the file is rewritten with one
\* converted line per record, in order, blank for an unknown class.
C2_PerFileDecision ==
    \A c \in Calls :
        LET r == hist[c[1]][c[2]]
        IN  (/\ ImageReadable(images[c[1]])
             /\ r.outcome # "raised"
             /\ \A i \in 1..Len(r.before) : IsRecord(r.before[i])) =>
              /\ r.outcome = "skipped" =>
                    \A i \in 1..Len(r.before) : RecordNormalized(r.before[i])
              /\ (\E i \in 1..Len(r.before) : ~RecordNormalized(r.before[i])) =>
                    /\ r.outcome = "converted"
                    /\ Len(r.after) = Len(r.before)
                    /\ \A i \in 1..Len(r.before) :
                          r.after[i] =
                            convert_bbox_to_yolo(ParseLine(r.before[i]),
                                                 images[c[1]].W, images[c[1]].H).line

\* C3: pascal_to_yolo is idempotent.  When a call on a label file has
\* returned normally, the next call on the file it left behind returns
\* normally too and leaves the content as it was.
C3_Idempotent ==
    \A c \in Calls :
        (c[2] >= 2 /\ hist[c[1]][c[2] - 1].outcome # "raised") =>
            /\ hist[c[1]][c[2]].outcome # "raised"
            /\ hist[c[1]][c[2]].after = hist[c[1]][c[2] - 1].after

\* C4: no exception propagates out of pascal_to_yolo, whatever the label file
\* holds, so the driver loop is never cut short.
C4_NoException ==
    /\ status # "crashed"
    /\ \A c \in Calls : hist[c[1]][c[2]].outcome # "raised"

(***************************************************************************)
(* train_test_slpit.py : file names                                        *)
(***************************************************************************)
\* the default of the sample argument
DefaultSample == 150

LowerChar(c) ==
    CASE c = "T" -> "t" [] c = "X" -> "x" [] c = "J" -> "j"
      [] c = "P" -> "p" [] c = "G" -> "g" [] c = "E" -> "e"
      [] OTHER -> c

\* str.lower() on a file name
RECURSIVE LowerName(_)
LowerName(f) ==
    IF f = "" THEN ""
    ELSE LowerChar(SubSeq(f, 1, 1)) \o LowerName(SubSeq(f, 2, Len(f)))

\* f.endswith(suffix)
EndsWith(f, suffix) ==
    /\ Len(f) >= Len(suffix)
    /\ SubSeq(f, Len(f) - Len(suffix) + 1, Len(f)) = suffix

\* f[:-4]
DropLast4(f) == IF Len(f) <= 4 THEN "" ELSE SubSeq(f, 1, Len(f) - 4)

\* os.path.splitext(f)[0] for the names of the model: up to the last dot
BaseName(f) ==
    IF EndsWith(LowerName(f), ".jpeg") THEN SubSeq(f, 1, Len(f) - 5) ELSE DropLast4(f)

\* line 71 and line 72
IsImage(f) == EndsWith(LowerName(f), ".jpg") \/ EndsWith(LowerName(f), ".jpeg")
IsLabel(f) == EndsWith(LowerName(f), ".txt")

\* the elements of s that lie in keep, in order
RECURSIVE Filter(_, _)
Filter(s, keep) ==
    IF s = <<>> THEN <<>>
    ELSE IF Head(s) \in keep THEN <<Head(s)>> \o Filter(Tail(s), keep)
    ELSE Filter(Tail(s), keep)

(***************************************************************************)
(* train_test_slpit.py : train_test_split, lines 28-47                     *)
(***************************************************************************)
\* random.seed(42); random.shuffle(files) on a list of n elements puts the
\* element at position ShufflePerm[n][i] at position i (CPython 3 Mersenne
\* Twister)
ShufflePerm ==
    << <<1>>,
       <<2, 1>>,
       <<2, 1, 3>>,
       <<3, 2, 4, 1>>,
       <<4, 2, 3, 5, 1>>,
       <<4, 2, 3, 5, 1, 6>> >>

\* the random.sample(files, k) that follows, on the same generator, returns
\* the elements at the first k positions of SampleOrder[n]
SampleOrder ==
    << <<1>>,
       <<1, 2>>,
       <<1, 2, 3>>,
       <<2, 1, 3, 4>>,
       <<2, 5, 1, 3, 4>>,
       <<2, 6, 5, 3, 1, 4>> >>

Shuffle(files) ==
    [i \in 1..Len(files) |-> files[ShufflePerm[Len(files)][i]]]

Sample(files, k) ==
    [j \in 1..k |-> files[SampleOrder[Len(files)][j]]]

\* line 28: the base names of the label files, in listing order
LabelIds(listing) ==
    LET labels == Filter(listing, {f \in Range(listing) :
                                      EndsWith(f, ".txt") \/ EndsWith(f, ".TXT")})
    IN  [i \in 1..Len(labels) |-> DropLast4(labels[i])]

train_test_split(listing, split_ratio, sample_arg) ==
    LET files      == Shuffle(LabelIds(listing))
        sample     == Min(sample_arg, Len(files))
        sampled    == Sample(files, sample)
        train_size == (sample * split_ratio[1]) \div 100
        val_size   == (sample * split_ratio[2]) \div 100
    IN  [sampled    |-> sampled,
         train_sets |-> Slice(sampled, 0, train_size),
         val_sets   |-> Slice(sampled, train_size, train_size + val_size),
         test_sets  |-> Slice(sampled, train_size + val_size, Len(sampled))]

(***************************************************************************)
(* train_test_slpit.py : images_labels_split, lines 66-101                 *)
(***************************************************************************)
\* the for loop inside one try block: the copies made before the first file
\* whose copy raises; the exception ends the loop
RECURSIVE CopiedBeforeFailure(_, _)
CopiedBeforeFailure(fs, unreadable) ==
    IF fs = <<>> \/ Head(fs) \in unreadable THEN {}
    ELSE {Head(fs)} \cup CopiedBeforeFailure(Tail(fs), unreadable)

LogRec(level, msg, name, mode) ==
    [level |-> level, msg |-> msg, name |-> name, mode |-> mode]

\* lines 83-89 and 95-101: copy the files, log the count or the failure
CopyLog(fs, unreadable, what, name, mode) ==
    IF Range(fs) \cap unreadable = {}
    THEN LogRec("info", "copied " \o what, name, mode)
    ELSE LogRec("warning", "error copying " \o what, name, mode)

SubsetFiles(raw_files, subfile) ==
    LET data == Filter(raw_files, {f \in Range(raw_files) : DropLast4(f) \in Range(subfile)})
    IN  [images |-> Filter(data, {f \in Range(data) : IsImage(f)}),
         labels |-> Filter(data, {f \in Range(data) : IsLabel(f)})]

\* the function without the count check of lines 75-77
images_labels_split_unchecked(raw_files, subfile, unreadable, name, mode) ==
    LET sel == SubsetFiles(raw_files, subfile)
    IN  [images |-> CopiedBeforeFailure(sel.images, unreadable),
         labels |-> CopiedBeforeFailure(sel.labels, unreadable),
         attempted |-> sel,
         logs   |-> <<CopyLog(sel.images, unreadable, "images", name, mode),
                      CopyLog(sel.labels, unreadable, "labels", name, mode)>>]

images_labels_split(raw_files, subfile, unreadable, name, mode) ==
    LET sel == SubsetFiles(raw_files, subfile)
    IN  IF Len(sel.images) # Len(sel.labels)
        THEN [images |-> {}, labels |-> {}, attempted |-> sel,
              logs |-> <<LogRec("warning", "mismatch", name, mode)>>]
        ELSE [images |-> CopiedBeforeFailure(sel.images, unreadable),
              labels |-> CopiedBeforeFailure(sel.labels, unreadable),
              attempted |-> sel,
              logs   |-> <<CopyLog(sel.images, unreadable, "images", name, mode),
                           CopyLog(sel.labels, unreadable, "labels", name, mode)>>]

(***************************************************************************)
(* SpecSplit : the partitioner's driver loop, which may be started again   *)
(***************************************************************************)
\* bounds
MaxRawFiles   == 4
MaxUnreadable == 1

Entries == {"zebra", "lion"}
NotDir  == {"<not a directory>"}

FileNames ==
    {"a.txt", "b.txt", "a.TXT", "a.jpg", "b.jpg", "a.JPG", "a.jpeg"}

\* the files whose copy may fail
CopyFailCandidates == {"a.jpg", "a.txt"}

\* split_ratio in percent and the sample argument: the driver's values, and
\* two more
Configs ==
    { [ratio |-> <<70, 15>>, sample |-> DefaultSample],
      [ratio |-> <<34, 33>>, sample |-> DefaultSample],
      [ratio |-> <<50, 50>>, sample |-> 2] }

\* the configurations the driver loop is run with
DriverConfigs == {c \in Configs : c.sample = DefaultSample}

Modes == <<"train", "val", "test">>
Kinds == {"images", "labels"}

IsDir(e) == rawRoot[e].dir # NotDir

DirFiles(e) == IF IsDir(e) THEN rawRoot[e].dir ELSE {}

RECURSIVE SumOver(_, _)
SumOver(S, f) ==
    IF S = {} THEN 0
    ELSE LET x == CHOOSE y \in S : TRUE IN f[x] + SumOver(S \ {x}, f)

NoSets == [sampled |-> <<>>, train_sets |-> <<>>, val_sets |-> <<>>, test_sets |-> <<>>]

NoCall == [called |-> FALSE, images |-> {}, labels |-> {},
           attempted |-> [images |-> {}, labels |-> {}], logs |-> <<>>]

NoCopies == [c \in Entries \X Range(Modes) |-> NoCall]

\* the raw root: every entry is a directory of at most MaxRawFiles files in
\* all, or not a directory; at most MaxUnreadable files cannot be copied
EntryChoices ==
    {[dir |-> NotDir, unreadable |-> {}]} \cup
    UNION {{[dir |-> d, unreadable |-> u] :
               u \in {s \in SUBSET (d \cap CopyFailCandidates) :
                        Cardinality(s) <= MaxUnreadable}} :
           d \in {d \in SUBSET FileNames : Cardinality(d) <= MaxRawFiles}}

InitSplit ==
    /\ rawRoot \in [Entries -> EntryChoices]
    /\ SumOver(Entries, [e \in Entries |-> Cardinality(DirFiles(e))]) <= MaxRawFiles
    /\ SumOver(Entries, [e \in Entries |-> Cardinality(rawRoot[e].unreadable)])
          <= MaxUnreadable
    /\ cfg \in DriverConfigs
    /\ todo = Entries
    /\ cur = None
    /\ pc = "driver"
    /\ sets = NoSets
    /\ copies = NoCopies
    /\ out = [k \in Kinds \X Range(Modes) \X Entries |-> {}]
    /\ slog = <<>>
    /\ run = 1
    /\ shist = [e \in Entries |-> <<>>]
    /\ BoxIdle
    /\ ConvIdle

\* lines 111-112 and 27-47: the driver loop reaches an entry of RAW_DIR, in
\* whatever order os.listdir returned them; os.listdir(DATA_PATH) raises on
\* an entry that is not a directory and nothing catches it
SplitClass(e) ==
    /\ pc = "driver"
    /\ e \in todo
    /\ todo' = todo \ {e}
    /\ cur' = e
    /\ IF ~IsDir(e)
       THEN /\ pc' = "crashed"
            /\ UNCHANGED <<sets, shist>>
       ELSE \E r \in {train_test_split(listing, cfg.ratio, cfg.sample) :
                          listing \in Perms(rawRoot[e].dir)} :
                   /\ sets' = r
                   /\ shist' = [shist EXCEPT ![e] =
                                  Append(@, [train |-> Range(r.train_sets),
                                             val   |-> Range(r.val_sets),
                                             test  |-> Range(r.test_sets)])]
                   /\ pc' = "train"
    /\ UNCHANGED <<rawRoot, cfg, copies, out, slog, run, boxVars, convVars>>

SubsetOf(mode) ==
    CASE mode = "train" -> sets.train_sets
      [] mode = "val"   -> sets.val_sets
      [] mode = "test"  -> sets.test_sets

AfterMode(mode) ==
    CASE mode = "train" -> "val"
      [] mode = "val"   -> "test"
      [] mode = "test"  -> "driver"

\* lines 50-54: one call of images_labels_split; after the third, the
\* success line is logged and the driver loop goes on
CopySubset ==
    /\ pc \in Range(Modes)
    /\ \E r \in {images_labels_split(raw_files, SubsetOf(pc),
                                      rawRoot[cur].unreadable, cur, pc) :
                  raw_files \in Perms(rawRoot[cur].dir)} :
              /\ copies' = [copies EXCEPT ![<<cur, pc>>] =
                              [called |-> TRUE, images |-> r.images, labels |-> r.labels,
                               attempted |-> [images |-> Range(r.attempted.images),
                                              labels |-> Range(r.attempted.labels)],
                               logs |-> r.logs]]
              /\ out' = [out EXCEPT ![<<"images", pc, cur>>] = @ \cup r.images,
                                    ![<<"labels", pc, cur>>] = @ \cup r.labels]
              /\ slog' = slog \o r.logs \o
                         (IF pc = "test" THEN <<LogRec("info", "split", cur, "all")>>
                          ELSE <<>>)
    /\ pc' = AfterMode(pc)
    /\ cur' = IF pc = "test" THEN None ELSE cur
    /\ UNCHANGED <<rawRoot, cfg, todo, sets, run, shist, boxVars, convVars>>

\* line 114: the loop over the entries is exhausted
FinishSplit ==
    /\ pc = "driver"
    /\ todo = {}
    /\ pc' = "done"
    /\ slog' = Append(slog, LogRec("info", "completed", "all", "all"))
    /\ UNCHANGED <<rawRoot, cfg, todo, cur, sets, copies, out, run, shist,
                   boxVars, convVars>>

NextSplit ==
    \/ \E e \in Entries : SplitClass(e)
    \/ CopySubset
    \/ FinishSplit

SpecSplit == InitSplit /\ [][NextSplit]_vars

(***************************************************************************)
(* Claims about the partitioner                                            *)
(***************************************************************************)
CallOf(e, m) == copies[<<e, m>>]

\* the call for subset m of class e found different image and label counts
Mismatch(e, m) ==
    /\ CallOf(e, m).called
    /\ Cardinality(CallOf(e, m).attempted.images)
          # Cardinality(CallOf(e, m).attempted.labels)

\* the files images_labels_split selected for the subset
Selected(e, m) ==
    CallOf(e, m).attempted.images \cup CallOf(e, m).attempted.labels

\* the driver loop is past class e
ClassFinished(e) == IsDir(e) /\ e \notin todo /\ cur # e

RECURSIVE CountWarnings(_, _, _)
CountWarnings(log, e, m) ==
    IF log = <<>> THEN 0
    ELSE (IF Head(log).level = "warning" /\ Head(log).name = e /\ Head(log).mode = m
          THEN 1 ELSE 0) + CountWarnings(Tail(log), e, m)

\* C5: a copy failure of one file does not abort the remaining copies of the
\* subset: every other selected image and label is still copied.
C5_CopyFailureIsolated ==
    \A e \in Entries, m \in Range(Modes) :
        (CallOf(e, m).called /\ ~Mismatch(e, m)) =>
            /\ CallOf(e, m).attempted.images \ rawRoot[e].unreadable
                  \subseteq out[<<"images", m, e>>]
            /\ CallOf(e, m).attempted.labels \ rawRoot[e].unreadable
                  \subseteq out[<<"labels", m, e>>]

\* C6: an entry of the raw root that cannot be listed aborts only itself:
\* when the driver has stopped, every class directory has been partitioned.
C6_OtherClassesPartitioned ==
    pc \in {"done", "crashed"} =>
        \A e \in Entries :
            IsDir(e) => /\ Len(shist[e]) >= 1
                        /\ \A m \in Range(Modes) : CallOf(e, m).called

\* C8: a subset whose image and label counts differ has none of its files
\* copied and exactly one warning logged; the other subsets of the class are
\* still processed and receive the files selected for them.
C8_MismatchSkipsSubset ==
    \A e \in Entries, m \in Range(Modes) :
        Mismatch(e, m) =>
            /\ out[<<"images", m, e>>] = {}
            /\ out[<<"labels", m, e>>] = {}
            /\ CountWarnings(slog, e, m) = 1
            /\ ClassFinished(e) => \A m2 \in Range(Modes) : CallOf(e, m2).called
            /\ \A m2 \in Range(Modes) \ {m} :
                  (CallOf(e, m2).called /\ ~Mismatch(e, m2)
                     /\ Selected(e, m2) \cap rawRoot[e].unreadable = {}) =>
                        /\ out[<<"images", m2, e>>] = CallOf(e, m2).attempted.images
                        /\ out[<<"labels", m2, e>>] = CallOf(e, m2).attempted.labels

\* a finished class with one subset skipped for a mismatch although files
\* were selected for it, and another subset copied
C8_Witness ==
    \E e \in Entries, m \in Range(Modes), m2 \in Range(Modes) :
        /\ ClassFinished(e)
        /\ Mismatch(e, m)
        /\ Selected(e, m) # {}
        /\ CountWarnings(slog, e, m) = 1
        /\ ~Mismatch(e, m2)
        /\ out[<<"images", m2, e>>] # {}
        /\ out[<<"labels", m2, e>>] # {}

\* every label has an image of the same base name and every image a label
Paired(labels, imgs) ==
    /\ \A l \in labels : \E i \in imgs : BaseName(i) = BaseName(l)
    /\ \A i \in imgs : \E l \in labels : BaseName(l) = BaseName(i)

\* C10: a subset that passed the count check and was copied without a copy
\* failure leaves matched image and label pairs in the output directories.
C10_CopiedFilesPaired ==
    \A e \in Entries, m \in Range(Modes) :
        (CallOf(e, m).called /\ ~Mismatch(e, m)
           /\ Selected(e, m) \cap rawRoot[e].unreadable = {}) =>
              Paired(out[<<"labels", m, e>>], out[<<"images", m, e>>])

(***************************************************************************)
(* SpecTwice : train_test_split's choice of the three sets, made again and *)
(* again for one class directory                                           *)
(***************************************************************************)
\* bound
MaxRuns == 2

TheClass == "zebra"

InitTwice ==
    /\ \E d \in {d \in SUBSET FileNames : Cardinality(d) <= MaxRawFiles} :
          rawRoot = [e \in {TheClass} |-> [dir |-> d, unreadable |-> {}]]
    /\ cfg \in Configs
    /\ todo = {}
    /\ cur = TheClass
    /\ pc = "driver"
    /\ sets = NoSets
    /\ copies = <<>>
    /\ out = <<>>
    /\ slog = <<>>
    /\ run = 0
    /\ shist = [e \in {TheClass} |-> <<>>]
    /\ BoxIdle
    /\ ConvIdle

\* lines 27-47 once more, on what os.listdir returns this time
SplitAgain ==
    /\ run < MaxRuns
    /\ run' = run + 1
    /\ \E listing \in Perms(rawRoot[cur].dir) :
          LET r == train_test_split(listing, cfg.ratio, cfg.sample)
          IN  /\ sets' = r
              /\ shist' = [shist EXCEPT ![cur] =
                             Append(@, [train |-> Range(r.train_sets),
                                        val   |-> Range(r.val_sets),
                                        test  |-> Range(r.test_sets)])]
    /\ UNCHANGED <<rawRoot, cfg, todo, cur, pc, copies, out, slog, boxVars, convVars>>

NextTwice == SplitAgain

SpecTwice == InitTwice /\ [][NextTwice]_vars

\* C7: with the same seed, arguments and files in the class directory, two
\* calls of train_test_split yield the same train, val and test membership,
\* whatever order the directory listing returns the files in.
C7_Deterministic ==
    \A k \in 2..Len(shist[TheClass]) : shist[TheClass][k] = shist[TheClass][1]

\* the identifiers of the corpus: the base names of the label files
Corpus(dir) == {DropLast4(f) : f \in {g \in dir : EndsWith(g, ".txt") \/ EndsWith(g, ".TXT")}}

\* C1: the three sets hold min(sampleCap, corpusSize) identifiers in all, are
\* pairwise disjoint, and together are exactly the sampled identifiers.
C1_Partition ==
    run >= 1 =>
        LET train == Range(sets.train_sets)
            val   == Range(sets.val_sets)
            test  == Range(sets.test_sets)
        IN  /\ Cardinality(train) + Cardinality(val) + Cardinality(test)
                  = Min(cfg.sample, Cardinality(Corpus(rawRoot[cur].dir)))
            /\ train \cap val = {}
            /\ train \cap test = {}
            /\ val \cap test = {}
            /\ train \cup val \cup test = Range(sets.sampled)

====
